---------------------------- MODULE Spec2Model ----------------------------
(***************************************************************************)
(* A model of src/app/main.py: the class SafeEvaluator (the sanitizer, the *)
(* interpreter's parser as evaluate() uses it, the recursive walk _eval)   *)
(* and the part of CalculatorWindow that edits the display.                *)
(*                                                                         *)
(* Text is a sequence of one-character strings; an identifier is carried   *)
(* as one element ("sqrt"), everything else character by character.        *)
(* Python numbers are modelled exactly where the model can: an int is an   *)
(* integer, a float is a ratio n/d in lowest terms (the rounding of a     *)
(* double is not modelled).  A float whose value is not such a ratio (pi,  *)
(* sqrt(2), sin(1)) is the value UntrackedFloat: the model knows that it   *)
(* is a float and nothing else.  Where Python's outcome depends on a value *)
(* the model does not track, or on a number beyond IntLimit, the outcome   *)
(* is Unmodelled; the properties below say where they leave it aside.      *)
(***************************************************************************)
EXTENDS Integers, Sequences, FiniteSets, TLC

VARIABLES expression, pc, tree, result, display, preview

vars == <<expression, pc, tree, result, display, preview>>

(***************************************************************************)
(* Bounds of the model.                                                    *)
(***************************************************************************)
\* Numerators, denominators and ints are tracked up to this magnitude.
IntLimit == 1000000000

\* The literals 0..MaxLiteral are operands of the expressions evaluated.
MaxLiteral == 4

\* The most arguments a call of the expressions evaluated has.
MaxArgs == 2

\* The deepest chain of signs, parentheses, calls and sums evaluated.
MaxNesting == 7

\* The longest text the display of the window holds.
MaxDisplay == 4

(***************************************************************************)
(* Python values and the outcome of a call.                                *)
(***************************************************************************)
IntV(n) == [t |-> "int", n |-> n]

RECURSIVE Gcd(_, _)
Gcd(a, b) == IF b = 0 THEN a ELSE Gcd(b, a % b)

Abs(x) == IF x < 0 THEN -x ELSE x

FloatV(n, d) ==
    LET g == Gcd(Abs(n), Abs(d))
        s == IF d < 0 THEN -1 ELSE 1
    IN  [t |-> "float", n |-> s * (n \div g), d |-> s * (d \div g)]

UntrackedFloat == [t |-> "float_untracked"]

BuiltinV(name) == [t |-> "builtin", name |-> name]

IsTracked(v) == v.t \in {"int", "float"}

IsNumber(v) == v.t \in {"int", "float", "float_untracked"}

IsFloat(v) == v.t \in {"float", "float_untracked"}

Numer(v) == v.n

Denom(v) == IF v.t = "float" THEN v.d ELSE 1

Ok(v) == [k |-> "ok", v |-> v]

Raise(exc, msg) == [k |-> "raise", exc |-> exc, msg |-> msg]

Unmodelled == [k |-> "unmodelled"]

IsOk(o) == o.k = "ok"

IsRaise(o) == o.k = "raise"

Raises(o, exc, msg) == o.k = "raise" /\ o.exc = exc /\ o.msg = msg

(***************************************************************************)
(* Python's arithmetic on the values above.                                *)
(***************************************************************************)
InRange(x) == Abs(x) <= IntLimit

MulFits(a, b) == a = 0 \/ b = 0 \/ Abs(a) <= IntLimit \div Abs(b)

\* The number n/d as a Python int (isfloat = FALSE, d = 1) or float.
MkNumber(isfloat, n, d) ==
    IF ~InRange(n) \/ ~InRange(d) THEN Unmodelled
    ELSE IF isfloat THEN Ok(FloatV(n, d))
    ELSE Ok(IntV(n))

\* C's truncating division of non-negative numbers, as CPython's long
\* division computes it before the sign adjustment.
TruncDiv(a, b) == Abs(a) \div Abs(b)

\* n / d rounded toward zero, as C's division does: what FloorQuot would be
\* without the adjustment for operands of different signs.
TowardZeroQuot(n, d) ==
    IF (n < 0) = (d < 0) \/ n = 0 THEN TruncDiv(n, d) ELSE -TruncDiv(n, d)

\* floor(n / d) for d # 0: the truncated quotient, minus one when the signs
\* differ and the division is inexact (CPython's i_divmod / l_divmod).
FloorQuot(n, d) ==
    LET q == TruncDiv(n, d)
        exact == Abs(n) = q * Abs(d)
    IN  IF (n < 0) = (d < 0) \/ n = 0 THEN q
        ELSE IF exact THEN -q
        ELSE -q - 1

PyAddSub(sign, l, r) ==
    IF ~IsTracked(l) \/ ~IsTracked(r) THEN Ok(UntrackedFloat)
    ELSE IF ~MulFits(Numer(l), Denom(r)) \/ ~MulFits(Numer(r), Denom(l))
            \/ ~MulFits(Denom(l), Denom(r)) THEN Unmodelled
    ELSE MkNumber(IsFloat(l) \/ IsFloat(r),
                  Numer(l) * Denom(r) + sign * Numer(r) * Denom(l),
                  Denom(l) * Denom(r))

PyMult(l, r) ==
    IF ~IsTracked(l) \/ ~IsTracked(r) THEN Ok(UntrackedFloat)
    ELSE IF ~MulFits(Numer(l), Numer(r)) \/ ~MulFits(Denom(l), Denom(r))
         THEN Unmodelled
    ELSE MkNumber(IsFloat(l) \/ IsFloat(r),
                  Numer(l) * Numer(r), Denom(l) * Denom(r))

PyTrueDiv(l, r) ==
    IF ~IsTracked(r) THEN Unmodelled
    ELSE IF Numer(r) = 0
         THEN Raise("ZeroDivisionError",
                    IF IsFloat(l) \/ IsFloat(r) THEN "float division by zero"
                    ELSE "division by zero")
    ELSE IF ~IsTracked(l) THEN Ok(UntrackedFloat)
    ELSE IF ~MulFits(Numer(l), Denom(r)) \/ ~MulFits(Denom(l), Numer(r))
         THEN Unmodelled
    ELSE MkNumber(TRUE, Numer(l) * Denom(r), Denom(l) * Numer(r))

PyFloorDiv(l, r) ==
    IF ~IsTracked(r) THEN Unmodelled
    ELSE IF Numer(r) = 0
         THEN Raise("ZeroDivisionError",
                    IF IsFloat(l) \/ IsFloat(r) THEN "float floor division by zero"
                    ELSE "integer division or modulo by zero")
    ELSE IF ~IsTracked(l) THEN Ok(UntrackedFloat)
    ELSE IF ~MulFits(Numer(l), Denom(r)) \/ ~MulFits(Denom(l), Numer(r))
         THEN Unmodelled
    ELSE MkNumber(IsFloat(l) \/ IsFloat(r),
                  FloorQuot(Numer(l) * Denom(r), Denom(l) * Numer(r)), 1)

PyMod(l, r) ==
    IF ~IsTracked(r) THEN Unmodelled
    ELSE IF Numer(r) = 0
         THEN Raise("ZeroDivisionError",
                    IF IsFloat(l) \/ IsFloat(r) THEN "float modulo"
                    ELSE "integer modulo by zero")
    ELSE IF ~IsTracked(l) THEN Ok(UntrackedFloat)
    ELSE IF ~MulFits(Numer(l), Denom(r)) \/ ~MulFits(Denom(l), Numer(r))
            \/ ~MulFits(Denom(l), Denom(r)) THEN Unmodelled
    ELSE LET q == FloorQuot(Numer(l) * Denom(r), Denom(l) * Numer(r))
         IN  IF ~MulFits(q, Numer(r)) \/ ~MulFits(q * Numer(r), Denom(l))
             THEN Unmodelled
             ELSE MkNumber(IsFloat(l) \/ IsFloat(r),
                           Numer(l) * Denom(r) - q * Numer(r) * Denom(l),
                           Denom(l) * Denom(r))

\* b ** k for an integer b and k >= 0 (Python ints are unbounded: the model
\* follows them up to IntLimit, and PowerFits says whether it can).
RECURSIVE IntPower(_, _)
IntPower(b, k) == IF k = 0 THEN 1 ELSE IntPower(b, k - 1) * b

RECURSIVE PowerFits(_, _)
PowerFits(b, k) ==
    \/ k = 0
    \/ /\ PowerFits(b, k - 1)
       /\ MulFits(IntPower(b, k - 1), b)
       /\ InRange(IntPower(b, k - 1) * b)

\* Python's l ** r on numbers: int ** non-negative int is an int, a negative
\* exponent or a float operand gives a float, zero to a negative power raises.
PyPow(l, r) ==
    IF ~IsTracked(l) \/ ~IsTracked(r) THEN Unmodelled
    ELSE IF Denom(r) = 1
    THEN LET k == Abs(Numer(r))
         IN  IF Numer(r) < 0 /\ Numer(l) = 0
             THEN Raise("ZeroDivisionError",
                        "0.0 cannot be raised to a negative power")
             ELSE IF ~PowerFits(Numer(l), k) \/ ~PowerFits(Denom(l), k)
             THEN Unmodelled
             ELSE IF Numer(r) < 0
             THEN MkNumber(TRUE, IntPower(Denom(l), k), IntPower(Numer(l), k))
             ELSE MkNumber(IsFloat(l) \/ IsFloat(r),
                           IntPower(Numer(l), k), IntPower(Denom(l), k))
    ELSE IF Numer(l) = 0
         THEN IF Numer(r) < 0
              THEN Raise("ZeroDivisionError",
                         "0.0 cannot be raised to a negative power")
              ELSE Ok(FloatV(0, 1))
    ELSE IF Numer(l) = Denom(l) THEN Ok(FloatV(1, 1))
    ELSE IF Numer(l) < 0 THEN Unmodelled   \* a complex number
    ELSE Ok(UntrackedFloat)

\* abs(x) > bound, as the pow guard compares; x is a tracked number.
AbsExceeds(x, bound) ==
    \/ Abs(Numer(x)) \div Denom(x) > bound
    \/ Abs(Numer(x)) \div Denom(x) = bound /\ Abs(Numer(x)) % Denom(x) > 0

\* The integer square root by bisection: the s in lo..hi with s*s <= n < (s+1)^2.
RECURSIVE IsqrtIn(_, _, _)
IsqrtIn(n, lo, hi) ==
    IF lo >= hi THEN lo
    ELSE LET mid == (lo + hi + 1) \div 2
         IN  IF mid * mid <= n THEN IsqrtIn(n, mid, hi)
             ELSE IsqrtIn(n, lo, mid - 1)

Isqrt(n) == IsqrtIn(n, 0, 31622)

IsSquare(n) == n >= 0 /\ Isqrt(n) * Isqrt(n) = n

\* The k with 10 ** k = n, or -1.
RECURSIVE Log10Int(_)
Log10Int(n) ==
    IF n = 1 THEN 0
    ELSE IF n < 1 \/ n % 10 # 0 THEN -1
    ELSE LET k == Log10Int(n \div 10) IN IF k = -1 THEN -1 ELSE k + 1

ArgCountError == Raise("TypeError", "wrong number of arguments")

RealNumberError == Raise("TypeError", "must be real number")

DomainError == Raise("ValueError", "math domain error")

\* math.sqrt(*args)
math_sqrt(args) ==
    IF Len(args) # 1 THEN ArgCountError
    ELSE IF ~IsNumber(args[1]) THEN RealNumberError
    ELSE IF ~IsTracked(args[1]) THEN Unmodelled
    ELSE IF Numer(args[1]) < 0 THEN DomainError
    ELSE IF IsSquare(Numer(args[1])) /\ IsSquare(Denom(args[1]))
         THEN Ok(FloatV(Isqrt(Numer(args[1])), Isqrt(Denom(args[1]))))
    ELSE Ok(UntrackedFloat)

\* math.sin, math.cos, math.tan (*args); at0 is the value at zero.
math_trig(args, at0) ==
    IF Len(args) # 1 THEN ArgCountError
    ELSE IF ~IsNumber(args[1]) THEN RealNumberError
    ELSE IF IsTracked(args[1]) /\ Numer(args[1]) = 0 THEN Ok(FloatV(at0, 1))
    ELSE Ok(UntrackedFloat)

\* math.log(x[, base])
math_log(args) ==
    IF Len(args) \notin {1, 2} THEN ArgCountError
    ELSE IF ~IsNumber(args[1]) THEN RealNumberError
    ELSE IF ~IsTracked(args[1]) THEN Unmodelled
    ELSE IF Numer(args[1]) <= 0 THEN DomainError
    ELSE IF Len(args) = 1
         THEN IF Numer(args[1]) = Denom(args[1]) THEN Ok(FloatV(0, 1))
              ELSE Ok(UntrackedFloat)
    ELSE IF ~IsNumber(args[2]) THEN RealNumberError
    ELSE IF ~IsTracked(args[2]) THEN Unmodelled
    ELSE IF Numer(args[2]) <= 0 THEN DomainError
    ELSE IF Numer(args[2]) = Denom(args[2])
         THEN Raise("ZeroDivisionError", "float division by zero")
    ELSE IF Numer(args[1]) = Denom(args[1]) THEN Ok(FloatV(0, 1))
    ELSE Ok(UntrackedFloat)

\* math.log10(x)
math_log10(args) ==
    IF Len(args) # 1 THEN ArgCountError
    ELSE IF ~IsNumber(args[1]) THEN RealNumberError
    ELSE IF ~IsTracked(args[1]) THEN Unmodelled
    ELSE IF Numer(args[1]) <= 0 THEN DomainError
    ELSE IF Denom(args[1]) = 1 /\ Log10Int(Numer(args[1])) # -1
         THEN Ok(FloatV(Log10Int(Numer(args[1])), 1))
    ELSE Ok(UntrackedFloat)

\* The builtin abs(x)
builtin_abs(args) ==
    IF Len(args) # 1 THEN ArgCountError
    ELSE IF ~IsNumber(args[1])
         THEN Raise("TypeError", "bad operand type for abs()")
    ELSE IF ~IsTracked(args[1]) THEN Ok(UntrackedFloat)
    ELSE MkNumber(IsFloat(args[1]), Abs(Numer(args[1])), Denom(args[1]))

\* The nearest integer to n/d, a tie going to the even one.
RoundHalfEven(n, d) ==
    LET f == FloorQuot(n, d)
        twice == 2 * (n - f * d)      \* twice the fractional part, times d
    IN  IF twice < d THEN f
        ELSE IF twice > d THEN f + 1
        ELSE IF f % 2 = 0 THEN f
        ELSE f + 1

\* The builtin round(number[, ndigits])
builtin_round(args) ==
    IF Len(args) \notin {1, 2} THEN ArgCountError
    ELSE IF ~IsNumber(args[1])
         THEN Raise("TypeError", "type doesn't define __round__ method")
    ELSE IF Len(args) = 2 /\ args[2].t # "int"
         THEN Raise("TypeError", "object cannot be interpreted as an integer")
    ELSE IF ~IsTracked(args[1]) THEN Unmodelled
    ELSE IF Len(args) = 1
         THEN MkNumber(FALSE, RoundHalfEven(Numer(args[1]), Denom(args[1])), 1)
    ELSE IF args[1].t = "int" /\ Numer(args[2]) >= 0 THEN Ok(args[1])
    ELSE IF args[1].t = "int" THEN Unmodelled
    ELSE Ok(UntrackedFloat)

\* func(*args) for the objects the registry holds: a builtin is applied, a
\* float (pi, e) is not callable.
CallObject(func, args) ==
    IF func.t # "builtin" THEN Raise("TypeError", "object is not callable")
    ELSE CASE func.name = "sqrt" -> math_sqrt(args)
           [] func.name = "sin" -> math_trig(args, 0)
           [] func.name = "cos" -> math_trig(args, 1)
           [] func.name = "tan" -> math_trig(args, 0)
           [] func.name = "log" -> math_log(args)
           [] func.name = "log10" -> math_log10(args)
           [] func.name = "abs" -> builtin_abs(args)
           [] func.name = "round" -> builtin_round(args)

(***************************************************************************)
(* Text.  The three glyphs of the calculator's buttons are written by      *)
(* their code points: U+00D7 (multiplication sign), U+00F7 (division       *)
(* sign), U+2212 (minus sign).                                             *)
(***************************************************************************)
Times == "U+00D7"

Divide == "U+00F7"

Minus == "U+2212"

Digits == {"0", "1", "2", "3", "4", "5", "6", "7", "8", "9"}

DigitValue(c) ==
    CASE c = "0" -> 0 [] c = "1" -> 1 [] c = "2" -> 2 [] c = "3" -> 3
      [] c = "4" -> 4 [] c = "5" -> 5 [] c = "6" -> 6 [] c = "7" -> 7
      [] c = "8" -> 8 [] c = "9" -> 9

\* The identifiers the model's texts are written with: the registry's names
\* and two names it does not hold.
Identifiers ==
    {"pi", "e", "sqrt", "sin", "cos", "tan", "log", "log10", "abs", "round",
     "x", "foo"}

\* The one-character operators and delimiters of the modelled grammar.
Punctuation ==
    {"+", "-", "%", "@", "(", ")", "[", "]", ",", ".", "~", "<"}

\* expression.replace(Times, '*').replace(Divide, '/').replace(Minus, '-')
sanitize(text) ==
    [i \in 1..Len(text) |->
        IF text[i] = Times THEN "*"
        ELSE IF text[i] = Divide THEN "/"
        ELSE IF text[i] = Minus THEN "-"
        ELSE text[i]]

(***************************************************************************)
(* ast.parse(sanitized, mode='eval'): the tokenizer.  A token is a number, *)
(* a name, a string or an operator.  The result is the token sequence, or  *)
(* why there is none: "syntax" (Python raises SyntaxError) or "unmodelled" *)
(* (a text outside the modelled fragment of Python).                       *)
(***************************************************************************)
NumTok(v) == [tt |-> "num", v |-> v]

NameTok(id) == [tt |-> "name", id |-> id]

StrTok == [tt |-> "str"]

OpTok(s) == [tt |-> "op", s |-> s]

IsOp(tok, s) == tok.tt = "op" /\ tok.s = s

Tokens(toks) == [ok |-> TRUE, toks |-> toks]

NoParse(why) == [ok |-> FALSE, why |-> why]

\* The end of the maximal run of digits that starts at i (i - 1 if none).
RECURSIVE DigitsEnd(_, _)
DigitsEnd(text, i) ==
    IF i <= Len(text) /\ text[i] \in Digits THEN DigitsEnd(text, i + 1)
    ELSE i - 1

\* The number the digits text[i..j] write, most significant first.
RECURSIVE DigitsValue(_, _, _)
DigitsValue(text, i, j) ==
    IF j < i THEN 0
    ELSE 10 * DigitsValue(text, i, j - 1) + DigitValue(text[j])

RECURSIVE TenTo(_)
TenTo(k) == IF k = 0 THEN 1 ELSE 10 * TenTo(k - 1)

\* The index of the next quote at or after i, or 0.
RECURSIVE QuoteAt(_, _)
QuoteAt(text, i) ==
    IF i > Len(text) THEN 0
    ELSE IF text[i] = "'" THEN i
    ELSE QuoteAt(text, i + 1)

\* The number literal that starts at i: [ok, tok, next].
LexNumber(text, i) ==
    LET intEnd == DigitsEnd(text, i)
        hasDot == intEnd < Len(text) /\ text[intEnd + 1] = "."
        fracEnd == IF hasDot THEN DigitsEnd(text, intEnd + 2) ELSE intEnd
        last == IF hasDot THEN (IF fracEnd < intEnd + 1 THEN intEnd + 1 ELSE fracEnd)
                ELSE intEnd
        intLen == intEnd - i + 1
        fracLen == last - intEnd - 1
        allZero == \A j \in i..intEnd : text[j] = "0"
    IN  IF last < Len(text) /\ text[last + 1] \in Identifiers
        THEN NoParse("unmodelled")   \* 1e5, 1j, 1if: not modelled
        ELSE IF intLen + (IF hasDot THEN fracLen ELSE 0) > 9
        THEN NoParse("unmodelled")   \* beyond IntLimit
        ELSE IF ~hasDot
        THEN IF intLen > 1 /\ text[i] = "0" /\ ~allZero
             THEN NoParse("syntax")  \* leading zeros in a decimal integer
             ELSE [ok |-> TRUE, next |-> last + 1,
                   tok |-> NumTok(IntV(DigitsValue(text, i, intEnd)))]
        ELSE [ok |-> TRUE, next |-> last + 1,
              tok |-> NumTok(FloatV(
                  DigitsValue(text, i, intEnd) * TenTo(fracLen)
                      + DigitsValue(text, intEnd + 2, last),
                  TenTo(fracLen)))]

RECURSIVE Lex(_, _, _)
Lex(text, i, acc) ==
    IF i > Len(text) THEN Tokens(acc)
    ELSE LET c == text[i]
             nxt == IF i < Len(text) THEN text[i + 1] ELSE ""
         IN
         IF c = " " THEN (IF i = 1 THEN NoParse("syntax")  \* unexpected indent
                          ELSE Lex(text, i + 1, acc))
         ELSE IF c \in Digits \/ (c = "." /\ nxt \in Digits)
         THEN LET n == LexNumber(text, i)
              IN  IF n.ok THEN Lex(text, n.next, Append(acc, n.tok)) ELSE n
         ELSE IF c \in Identifiers
         THEN IF nxt \in Identifiers \/ nxt \in Digits
              THEN NoParse("unmodelled")  \* an identifier is one element
              ELSE Lex(text, i + 1, Append(acc, NameTok(c)))
         ELSE IF c = "'"
         THEN LET q == QuoteAt(text, i + 1)
              IN  IF q = 0 THEN NoParse("syntax")  \* unterminated string
                  ELSE Lex(text, q + 1, Append(acc, StrTok))
         ELSE IF c = "*"
         THEN IF nxt = "*" THEN Lex(text, i + 2, Append(acc, OpTok("**")))
              ELSE Lex(text, i + 1, Append(acc, OpTok("*")))
         ELSE IF c = "/"
         THEN IF nxt = "/" THEN Lex(text, i + 2, Append(acc, OpTok("//")))
              ELSE Lex(text, i + 1, Append(acc, OpTok("/")))
         ELSE IF c = "<"
         THEN IF nxt \in {"<", "="} THEN NoParse("unmodelled")
              ELSE Lex(text, i + 1, Append(acc, OpTok("<")))
         ELSE IF c \in Punctuation THEN Lex(text, i + 1, Append(acc, OpTok(c)))
         ELSE NoParse("unmodelled")

tokenize(text) == Lex(text, 1, <<>>)

(***************************************************************************)
(* ast.parse(sanitized, mode='eval'): the tree.  A node is a record whose  *)
(* kind is the name of its ast class.                                      *)
(***************************************************************************)
Constant(value) == [kind |-> "Constant", value |-> value]

Name(id) == [kind |-> "Name", id |-> id]

UnaryOp(op, operand) == [kind |-> "UnaryOp", op |-> op, operand |-> operand]

BinOp(left, op, right) ==
    [kind |-> "BinOp", left |-> left, op |-> op, right |-> right]

Call(func, args) == [kind |-> "Call", func |-> func, args |-> args]

Attribute(value, attr) == [kind |-> "Attribute", value |-> value, attr |-> attr]

Subscript(value, slice) == [kind |-> "Subscript", value |-> value, slice |-> slice]

Compare(left, comparators) ==
    [kind |-> "Compare", left |-> left, comparators |-> comparators]

Tuple(elts) == [kind |-> "Tuple", elts |-> elts]

List(elts) == [kind |-> "List", elts |-> elts]

Parsed(node, next) == [ok |-> TRUE, node |-> node, next |-> next]

EndMarker == OpTok("<end>")

Tok(toks, i) == IF i <= Len(toks) THEN toks[i] ELSE EndMarker

UnaryOpOf(s) ==
    CASE s = "+" -> "UAdd" [] s = "-" -> "USub" [] s = "~" -> "Invert"

BinOpOf(s) ==
    CASE s = "+" -> "Add" [] s = "-" -> "Sub" [] s = "*" -> "Mult"
      [] s = "/" -> "Div" [] s = "//" -> "FloorDiv" [] s = "%" -> "Mod"
      [] s = "@" -> "MatMult" [] s = "**" -> "Pow"

IsOneOf(tok, ops) == tok.tt = "op" /\ tok.s \in ops

\* The rules of the grammar call one another through ParseRule(rule, ...), whose
\* last argument holds what the rule takes besides the tokens and the position.
RECURSIVE ParseRule(_, _, _, _)


\* expression (',' expression)* [','] up to the closing token:
\* [ok, elts, next, comma].
ParseItems(toks, i, closer, acc, comma) ==
    IF IsOp(Tok(toks, i), closer)
    THEN [ok |-> TRUE, elts |-> acc, next |-> i + 1, comma |-> comma]
    ELSE LET e == ParseRule("expression", toks, i, <<>>)
         IN  IF ~e.ok THEN e
             ELSE IF IsOp(Tok(toks, e.next), ",")
             THEN ParseRule("items", toks, e.next + 1,
                            <<closer, Append(acc, e.node), TRUE>>)
             ELSE IF IsOp(Tok(toks, e.next), closer)
             THEN [ok |-> TRUE, elts |-> Append(acc, e.node),
                   next |-> e.next + 1, comma |-> comma]
             ELSE NoParse("syntax")

\* atom: NAME | NUMBER | STRING | '(' ... ')' | '[' ... ']'
ParseAtom(toks, i) ==
    LET tok == Tok(toks, i)
    IN  IF tok.tt = "num" THEN Parsed(Constant(tok.v), i + 1)
        ELSE IF tok.tt = "str"
        THEN IF Tok(toks, i + 1).tt = "str" THEN NoParse("unmodelled")
             ELSE Parsed(Constant([t |-> "str"]), i + 1)
        ELSE IF tok.tt = "name" THEN Parsed(Name(tok.id), i + 1)
        ELSE IF IsOp(tok, "(")
        THEN LET items == ParseRule("items", toks, i + 1, <<")", <<>>, FALSE>>)
             IN  IF ~items.ok THEN items
                 ELSE IF Len(items.elts) = 1 /\ ~items.comma
                 THEN Parsed(items.elts[1], items.next)
                 ELSE Parsed(Tuple(items.elts), items.next)
        ELSE IF IsOp(tok, "[")
        THEN LET items == ParseRule("items", toks, i + 1, <<"]", <<>>, FALSE>>)
             IN  IF ~items.ok THEN items
                 ELSE Parsed(List(items.elts), items.next)
        ELSE NoParse("syntax")

\* primary: atom ('.' NAME | '(' arguments ')' | '[' slices ']')*
ParseTrailers(toks, i, node) ==
    LET tok == Tok(toks, i)
    IN  IF IsOp(tok, "(")
        THEN LET items == ParseRule("items", toks, i + 1, <<")", <<>>, FALSE>>)
             IN  IF ~items.ok THEN items
                 ELSE ParseRule("trailers", toks, items.next,
                                <<Call(node, items.elts)>>)
        ELSE IF IsOp(tok, "[")
        THEN LET items == ParseRule("items", toks, i + 1, <<"]", <<>>, FALSE>>)
             IN  IF ~items.ok THEN items
                 ELSE IF Len(items.elts) = 0 THEN NoParse("syntax")
                 ELSE IF Len(items.elts) = 1 /\ ~items.comma
                 THEN ParseRule("trailers", toks, items.next,
                                <<Subscript(node, items.elts[1])>>)
                 ELSE ParseRule("trailers", toks, items.next,
                                <<Subscript(node, Tuple(items.elts))>>)
        ELSE IF IsOp(tok, ".")
        THEN IF Tok(toks, i + 1).tt = "name"
             THEN ParseRule("trailers", toks, i + 2,
                            <<Attribute(node, Tok(toks, i + 1).id)>>)
             ELSE NoParse("syntax")
        ELSE Parsed(node, i)

\* power: primary ['**' factor]
ParsePower(toks, i) ==
    LET a == ParseRule("atom", toks, i, <<>>)
        p == IF a.ok THEN ParseRule("trailers", toks, a.next, <<a.node>>) ELSE a
    IN  IF ~p.ok THEN p
        ELSE IF IsOp(Tok(toks, p.next), "**")
        THEN LET f == ParseRule("factor", toks, p.next + 1, <<>>)
             IN  IF ~f.ok THEN f
                 ELSE Parsed(BinOp(p.node, "Pow", f.node), f.next)
        ELSE p

\* factor: ('+' | '-' | '~') factor | power
ParseFactor(toks, i) ==
    IF IsOneOf(Tok(toks, i), {"+", "-", "~"})
    THEN LET f == ParseRule("factor", toks, i + 1, <<>>)
         IN  IF ~f.ok THEN f
             ELSE Parsed(UnaryOp(UnaryOpOf(Tok(toks, i).s), f.node), f.next)
    ELSE ParseRule("power", toks, i, <<>>)

\* term: factor (('*' | '/' | '//' | '%' | '@') factor)*, left-associative
ParseTermRest(toks, i, left) ==
    IF IsOneOf(Tok(toks, i), {"*", "/", "//", "%", "@"})
    THEN LET f == ParseRule("factor", toks, i + 1, <<>>)
         IN  IF ~f.ok THEN f
             ELSE ParseRule("term_rest", toks, f.next,
                            <<BinOp(left, BinOpOf(Tok(toks, i).s), f.node)>>)
    ELSE Parsed(left, i)

ParseTerm(toks, i) ==
    LET f == ParseRule("factor", toks, i, <<>>)
    IN  IF ~f.ok THEN f ELSE ParseRule("term_rest", toks, f.next, <<f.node>>)

\* sum: term (('+' | '-') term)*, left-associative
ParseSumRest(toks, i, left) ==
    IF IsOneOf(Tok(toks, i), {"+", "-"})
    THEN LET t == ParseRule("term", toks, i + 1, <<>>)
         IN  IF ~t.ok THEN t
             ELSE ParseRule("sum_rest", toks, t.next,
                            <<BinOp(left, BinOpOf(Tok(toks, i).s), t.node)>>)
    ELSE Parsed(left, i)

\* comparison: sum ('<' sum)*
ParseCompareRest(toks, i, left, comparators) ==
    IF IsOp(Tok(toks, i), "<")
    THEN LET t == ParseRule("term", toks, i + 1, <<>>)
             u == IF t.ok THEN ParseRule("sum_rest", toks, t.next,
                                         <<t.node>>) ELSE t
         IN  IF ~u.ok THEN u
             ELSE ParseRule("compare_rest", toks, u.next,
                            <<left, Append(comparators, u.node)>>)
    ELSE IF comparators = <<>> THEN Parsed(left, i)
    ELSE Parsed(Compare(left, comparators), i)

ParseExpression(toks, i) ==
    LET t == ParseRule("term", toks, i, <<>>)
        u == IF t.ok THEN ParseRule("sum_rest", toks, t.next, <<t.node>>) ELSE t
    IN  IF ~u.ok THEN u ELSE ParseRule("compare_rest", toks, u.next, <<u.node,
                                       <<>>>>)

ParseRule(rule, toks, i, a) ==
    CASE rule = "items" -> ParseItems(toks, i, a[1], a[2], a[3])
      [] rule = "atom" -> ParseAtom(toks, i)
      [] rule = "trailers" -> ParseTrailers(toks, i, a[1])
      [] rule = "power" -> ParsePower(toks, i)
      [] rule = "factor" -> ParseFactor(toks, i)
      [] rule = "term_rest" -> ParseTermRest(toks, i, a[1])
      [] rule = "term" -> ParseTerm(toks, i)
      [] rule = "sum_rest" -> ParseSumRest(toks, i, a[1])
      [] rule = "compare_rest" -> ParseCompareRest(toks, i, a[1], a[2])
      [] rule = "expression" -> ParseExpression(toks, i)

\* ast.parse(text, mode='eval').body, or why there is none.
ExpressionBody(items) ==
    IF ~items.ok THEN items
    ELSE IF Len(items.elts) = 0 THEN NoParse("syntax")
    ELSE IF Len(items.elts) = 1 /\ ~items.comma
    THEN [ok |-> TRUE, body |-> items.elts[1]]
    ELSE [ok |-> TRUE, body |-> Tuple(items.elts)]

ParseTokens(lexed) ==
    IF ~lexed.ok THEN lexed
    ELSE ExpressionBody(ParseRule("items", lexed.toks, 1, <<"<end>", <<>>, FALSE>>))

ast_parse(text) == ParseTokens(tokenize(text))

(***************************************************************************)
(* SafeEvaluator                                                           *)
(***************************************************************************)
\* self.allowed_nodes: the names of the ast classes of the tuple.
allowed_nodes ==
    {"Expression", "BinOp", "UnaryOp", "Num", "Constant", "Add", "Sub",
     "Mult", "Div", "FloorDiv", "Mod", "Pow", "USub", "UAdd", "Load", "Call",
     "Name", "Tuple", "List", "MatMult"}

\* self.allowed_names: one dictionary for the constants and the functions.
allowed_names ==
    [id \in {"pi", "e", "sqrt", "sin", "cos", "tan", "log", "log10", "abs",
             "round"} |->
        IF id \in {"pi", "e"} THEN UntrackedFloat ELSE BuiltinV(id)]

\* The interpreter's limit on nested calls, which is all that bounds the
\* recursion of _eval: sys.getrecursionlimit() is 1000, the model scales it
\* down to the depth its expressions reach.
RecursionLimit == 6

\* The policy constants of the pow guard.
MaxBase == 1000000

MaxExponent == 10

\* +operand, -operand
PyUnary(op, operand) ==
    IF ~IsNumber(operand) THEN Raise("TypeError", "bad operand type for unary operator")
    ELSE IF ~IsTracked(operand) THEN Ok(UntrackedFloat)
    ELSE IF op = "UAdd" THEN Ok(operand)
    ELSE MkNumber(IsFloat(operand), -Numer(operand), Denom(operand))

\* abs(left) > 1e6 or abs(right) > 10, with Python's short circuit: whether
\* the guard fires, or the outcome of the abs() that cannot be taken.
Guard(fires) == [k |-> "guard", fires |-> fires]

\* The guard with abs(right) >= 10 in place of abs(right) > 10.
BoundaryPowGuard(left, right) ==
    IF ~IsNumber(left) THEN Raise("TypeError", "bad operand type for abs()")
    ELSE IF ~IsTracked(left) THEN Unmodelled
    ELSE IF AbsExceeds(left, MaxBase) THEN Guard(TRUE)
    ELSE IF ~IsNumber(right) THEN Raise("TypeError", "bad operand type for abs()")
    ELSE IF ~IsTracked(right) THEN Unmodelled
    ELSE Guard(AbsExceeds(right, MaxExponent - 1))

PowGuard(left, right) ==
    IF ~IsNumber(left) THEN Raise("TypeError", "bad operand type for abs()")
    ELSE IF ~IsTracked(left) THEN Unmodelled
    ELSE IF AbsExceeds(left, MaxBase) THEN Guard(TRUE)
    ELSE IF ~IsNumber(right) THEN Raise("TypeError", "bad operand type for abs()")
    ELSE IF ~IsTracked(right) THEN Unmodelled
    ELSE Guard(AbsExceeds(right, MaxExponent))

\* The BinOp branch of _eval once both operands have a value.
ApplyBinOp(op, left, right) ==
    IF op = "Pow"
    THEN LET g == PowGuard(left, right)
         IN  IF g.k # "guard" THEN g
             ELSE IF g.fires THEN Raise("ValueError", "Exponent too large")
             ELSE PyPow(left, right)
    ELSE IF op \notin {"Add", "Sub", "Mult", "Div", "FloorDiv", "Mod"}
    THEN Raise("ValueError", "Unsupported operator")
    ELSE IF ~IsNumber(left) \/ ~IsNumber(right)
    THEN Raise("TypeError", "unsupported operand type(s)")
    ELSE CASE op = "Add" -> PyAddSub(1, left, right)
           [] op = "Sub" -> PyAddSub(-1, left, right)
           [] op = "Mult" -> PyMult(left, right)
           [] op = "Div" -> PyTrueDiv(left, right)
           [] op = "FloorDiv" -> PyFloorDiv(left, right)
           [] op = "Mod" -> PyMod(left, right)

\* What a call of _eval gives: its outcome, the nodes _eval was entered on
\* (each named by its path from the root, in the order of entry), and the
\* deepest nesting of _eval calls it reached.
Walk(out, visited, deepest) ==
    [out |-> out, visited |-> visited, deepest |-> deepest]

Max(a, b) == IF a >= b THEN a ELSE b

\* A BinOp branch that evaluates the right operand before the left one.
RightFirstBinOp(op, path, left, right) ==
    IF ~IsOk(right.out)
    THEN Walk(right.out, <<path>> \o right.visited, right.deepest)
    ELSE IF ~IsOk(left.out)
    THEN Walk(left.out, <<path>> \o right.visited \o left.visited,
              Max(left.deepest, right.deepest))
    ELSE Walk(ApplyBinOp(op, left.out.v, right.out.v),
              <<path>> \o right.visited \o left.visited,
              Max(left.deepest, right.deepest))

\* The BinOp branch of _eval: left = self._eval(node.left), then
\* right = self._eval(node.right), then the operator.  left and right are the
\* walks of the two operands; the right one counts only if the left one gave
\* a value.
EvalBinOp(op, path, left, right) ==
    IF ~IsOk(left.out)
    THEN Walk(left.out, <<path>> \o left.visited, left.deepest)
    ELSE IF ~IsOk(right.out)
    THEN Walk(right.out, <<path>> \o left.visited \o right.visited,
              Max(left.deepest, right.deepest))
    ELSE Walk(ApplyBinOp(op, left.out.v, right.out.v),
              <<path>> \o left.visited \o right.visited,
              Max(left.deepest, right.deepest))

RECURSIVE _eval(_, _, _)
RECURSIVE EvalArgs(_, _, _, _, _)

\* args = [self._eval(arg) for arg in node.args]: the values of args[i..],
\* after acc, or the first outcome that is not a value.
EvalArgs(args, i, path, depth, acc) ==
    IF i > Len(args) THEN Walk(Ok(acc), <<>>, depth)
    ELSE LET a == _eval(args[i], Append(path, i), depth + 1)
         IN  IF ~IsOk(a.out) THEN a
             ELSE LET rest == EvalArgs(args, i + 1, path, depth,
                                       Append(acc, a.out.v))
                  IN  Walk(rest.out, a.visited \o rest.visited,
                           Max(a.deepest, rest.deepest))

_eval(node, path, depth) ==
    IF depth > RecursionLimit
    THEN Walk(Raise("RecursionError", "maximum recursion depth exceeded"),
              <<>>, depth - 1)
    ELSE IF node.kind \notin allowed_nodes
    THEN Walk(Raise("ValueError", "Disallowed expression"), <<path>>, depth)
    ELSE IF node.kind = "Constant"
    THEN IF node.value.t \in {"int", "float"}
         THEN Walk(Ok(node.value), <<path>>, depth)
         ELSE Walk(Raise("ValueError", "Invalid constant"), <<path>>, depth)
    ELSE IF node.kind = "Num"
    THEN Walk(Ok(node.n), <<path>>, depth)
    ELSE IF node.kind = "UnaryOp"
    THEN LET operand == _eval(node.operand, Append(path, 1), depth + 1)
             here == <<path>> \o operand.visited
         IN  IF ~IsOk(operand.out) THEN Walk(operand.out, here, operand.deepest)
             ELSE IF node.op \in {"UAdd", "USub"}
             THEN Walk(PyUnary(node.op, operand.out.v), here, operand.deepest)
             ELSE Walk(Raise("ValueError", "Unsupported unary operator"),
                       here, operand.deepest)
    ELSE IF node.kind = "BinOp"
    THEN EvalBinOp(node.op, path,
                   _eval(node.left, Append(path, 1), depth + 1),
                   _eval(node.right, Append(path, 2), depth + 1))
    ELSE IF node.kind = "Call"
    THEN IF node.func.kind = "Name" /\ node.func.id \in DOMAIN allowed_names
         THEN LET args == EvalArgs(node.args, 1, path, depth, <<>>)
              IN  IF ~IsOk(args.out)
                  THEN Walk(args.out, <<path>> \o args.visited, args.deepest)
                  ELSE Walk(CallObject(allowed_names[node.func.id], args.out.v),
                            <<path>> \o args.visited, args.deepest)
         ELSE Walk(Raise("ValueError", "Function not allowed"), <<path>>, depth)
    ELSE IF node.kind = "Name"
    THEN IF node.id \in DOMAIN allowed_names
         THEN Walk(Ok(allowed_names[node.id]), <<path>>, depth)
         ELSE Walk(Raise("ValueError", "Unknown identifier"), <<path>>, depth)
    ELSE Walk(Raise("ValueError", "Invalid expression"), <<path>>, depth)

\* SafeEvaluator.evaluate(expression), with the walk's record.
EvalParsed(parsed) ==
    IF ~parsed.ok
    THEN IF parsed.why = "syntax"
         THEN Walk(Raise("ValueError", "Invalid expression"), <<>>, 0)
         ELSE Walk(Unmodelled, <<>>, 0)
    ELSE _eval(parsed.body, <<>>, 1)

evaluate_walk(text) == EvalParsed(ast_parse(sanitize(text)))

evaluate(text) == evaluate_walk(text).out

(***************************************************************************)
(* CalculatorWindow: the display, the preview and _append_token.           *)
(***************************************************************************)
DigitChar(d) ==
    CASE d = 0 -> "0" [] d = 1 -> "1" [] d = 2 -> "2" [] d = 3 -> "3"
      [] d = 4 -> "4" [] d = 5 -> "5" [] d = 6 -> "6" [] d = 7 -> "7"
      [] d = 8 -> "8" [] d = 9 -> "9"

\* str(n) for n >= 0
RECURSIVE NatText(_)
NatText(n) ==
    IF n < 10 THEN <<DigitChar(n)>>
    ELSE Append(NatText(n \div 10), DigitChar(n % 10))

\* str(n) for an int n
IntText(n) == IF n < 0 THEN <<"-">> \o NatText(-n) ELSE NatText(n)

\* The first k decimals of r/d (0 <= r < d) and the remainder left after
\* them: [digits, rem].
RECURSIVE Decimals(_, _, _)
Decimals(r, d, k) ==
    IF k = 0 THEN [digits |-> <<>>, rem |-> r]
    ELSE LET rest == Decimals((r * 10) % d, d, k - 1)
         IN  [digits |-> <<DigitChar((r * 10) \div d)>> \o rest.digits,
              rem |-> rest.rem]

\* The decimal digits plus one in the last place: [digits, carry].
RECURSIVE Increment(_)
Increment(digits) ==
    IF digits = <<>> THEN [digits |-> <<>>, carry |-> TRUE]
    ELSE LET n == Len(digits)
             last == DigitValue(digits[n])
             front == SubSeq(digits, 1, n - 1)
         IN  IF last < 9
             THEN [digits |-> Append(front, DigitChar(last + 1)), carry |-> FALSE]
             ELSE LET up == Increment(front)
                  IN  [digits |-> Append(up.digits, "0"), carry |-> up.carry]

\* text.rstrip(c)
RECURSIVE rstrip(_, _)
rstrip(text, c) ==
    IF text # <<>> /\ text[Len(text)] = c
    THEN rstrip(SubSeq(text, 1, Len(text) - 1), c)
    ELSE text

\* The text of a number the model does not track.
UntrackedText == <<"?">>

\* '{0:.10f}'.format(value) for the float n/d
FixedText(n, d) ==
    LET whole == Abs(n) \div d
        dec == Decimals(Abs(n) % d, d, 10)
        tie == 2 * dec.rem = d
        up == 2 * dec.rem > d
              \/ (tie /\ DigitValue(dec.digits[10]) % 2 = 1)
        inc == IF up THEN Increment(dec.digits)
               ELSE [digits |-> dec.digits, carry |-> FALSE]
    IN  (IF n < 0 THEN <<"-">> ELSE <<>>)
        \o NatText(IF inc.carry THEN whole + 1 ELSE whole)
        \o <<".">> \o inc.digits

\* CalculatorWindow._format_result(value)
_format_result(value) ==
    IF value.t = "float"
    THEN IF value.d = 1 THEN IntText(value.n)
         ELSE IF value.d > IntLimit \div 20 THEN UntrackedText
         ELSE rstrip(rstrip(FixedText(value.n, value.d), "0"), ".")
    ELSE IF value.t = "int" THEN IntText(value.n)
    ELSE UntrackedText

\* What _update_preview sets the preview to when the display holds text:
\* the formatted result, or '' when evaluate raises.
PreviewText(out) ==
    IF IsOk(out) THEN _format_result(out.v)
    ELSE IF IsRaise(out) THEN <<>>
    ELSE UntrackedText

PreviewOf(text) == PreviewText(evaluate(text))

\* The operator tokens of the duplicate check in _append_token.
OperatorTokens == {<<"+">>, <<Minus>>, <<Times>>, <<Divide>>, <<"*", "*">>}

\* current.endswith(suffix)
endswith(current, suffix) ==
    /\ Len(current) >= Len(suffix)
    /\ SubSeq(current, Len(current) - Len(suffix) + 1, Len(current)) = suffix

\* CalculatorWindow._append_token(token), from a display that holds text:
\* the text the display holds after it.
AppendedText(text, token) ==
    LET current == IF text = <<"0">> /\ token \notin {<<".">>, <<"(">>, <<")">>}
                   THEN <<>> ELSE text
        kept == IF token \in OperatorTokens
                   /\ \E suffix \in OperatorTokens : endswith(current, suffix)
                THEN SubSeq(current, 1, Len(current) - 1)   \* current[:-1]
                ELSE current
    IN  kept \o token

(***************************************************************************)
(* The texts a caller passes to SafeEvaluator.evaluate.                    *)
(***************************************************************************)
Lit(n) == NatText(n)

Paren(text) == <<"(">> \o text \o <<")">>

RECURSIVE Repeat(_, _)
Repeat(text, k) == IF k = 0 THEN <<>> ELSE text \o Repeat(text, k - 1)

LiteralValues ==
    (0..MaxLiteral) \cup {7, 16, MaxExponent, MaxExponent + 1, MaxBase, MaxBase + 1}

OneOverZero == <<"1", "/", "0">>

Operands ==
    {Lit(n) : n \in LiteralValues}
    \cup {Paren(<<"-">> \o Lit(n)) : n \in {1, 7, MaxExponent + 1}}
    \cup {<<"0", ".", "5">>, <<"0", ".", "0">>, Paren(OneOverZero)}
    \cup {<<id>> : id \in {"pi", "sqrt", "x"}}

OperatorTexts ==
    {<<"+">>, <<"-">>, <<"*">>, <<"/">>, <<"/", "/">>, <<"%">>, <<"*", "*">>,
     <<"@">>, <<"<">>, <<Times>>, <<Divide>>, <<Minus>>}

BinaryTexts == {a \o op \o b : a \in Operands, op \in OperatorTexts, b \in Operands}

\* -7 // 2 and the like: a sign before the left operand, with and without
\* blanks around the operator.
SignedTexts ==
    {<<"-">> \o Lit(a) \o sp \o op \o sp \o Lit(b) :
        a \in {1, 2, 3, 7}, b \in {0, 2, 3},
        op \in {<<"/", "/">>, <<"%">>, <<"*", "*">>, <<"/">>},
        sp \in {<<>>, <<" ">>}}

ChainOperands == {Lit(0), Lit(2), Lit(3), Lit(4), <<"x">>}

ChainOperators == {<<"*", "*">>, <<"/">>, <<"/", "/">>, <<"+">>}

ChainTexts ==
    {a \o op1 \o b \o op2 \o c :
        a \in ChainOperands, b \in ChainOperands, c \in ChainOperands,
        op1 \in ChainOperators, op2 \in ChainOperators}

Arguments ==
    {Lit(0), Lit(1), Lit(16), <<"-">> \o Lit(1), <<"0", ".", "5">>, <<"x">>,
     <<"sqrt">>, OneOverZero}

RECURSIVE ArgumentLists(_)
ArgumentLists(n) ==
    IF n = 0 THEN {<<>>}
    ELSE ArgumentLists(n - 1)
         \cup Arguments
         \cup {l \o <<",">> \o a : l \in ArgumentLists(n - 1) \ {<<>>}, a \in Arguments}

Callees ==
    {<<id>> : id \in Identifiers}
    \cup {Lit(2), Paren(Lit(1)), <<"sqrt", ".", "x">>, <<"sqrt", "(", "4", ")">>}

CallTexts == {c \o Paren(a) : c \in Callees, a \in ArgumentLists(MaxArgs)}

\* What the grammar of the interpreter accepts beyond the calculator's.
OtherKinds ==
    {<<"[", "1", ",", "2", "]">>, <<"[", "]">>, <<"[", "1", "/", "0", "]">>,
     <<"(", "1", ",", "2", ")">>, <<"(", ")">>, <<"1", ",", "2">>,
     <<"'", "a", "'">>, <<"x", ".", "foo">>, <<"x", "[", "0", "]">>,
     <<"x", "[", "1", ",", "2", "]">>, <<"1", "<", "2", "<", "3">>,
     <<"1", "@", "2">>, <<"~", "1">>}

OtherTexts ==
    OtherKinds
    \cup {Lit(1) \o <<"+">> \o k : k \in OtherKinds}
    \cup {k \o <<"*">> \o <<"x">> : k \in OtherKinds}
    \cup {<<"-">> \o k : k \in OtherKinds}
    \cup {<<"sqrt">> \o Paren(k) : k \in OtherKinds}

Malformed ==
    {<<>>, <<" ">>, <<" ", "1">>, <<"1", "+">>, <<"+">>, <<"(", "1">>,
     <<"1", ")">>, <<"1", " ", "2">>, <<"0", "1">>, <<"1", ".", ".", "2">>,
     <<".">>, <<"'", "a">>, <<"1", "*", " ", "*", "2">>,
     <<"sqrt", "(", ",", ")">>}

NestedTexts ==
    {Repeat(<<"-">>, k) \o t : k \in 0..MaxNesting, t \in {Lit(1), <<"x">>, <<"pi">>, <<"sqrt">>}}
    \cup {Repeat(<<"(">>, k) \o Lit(1) \o Repeat(<<")">>, k) : k \in 0..MaxNesting}
    \cup {Repeat(<<"sqrt", "(">>, k) \o Lit(1) \o Repeat(<<")">>, k) : k \in 0..MaxNesting}
    \cup {Repeat(<<"1", "+">>, k) \o Lit(1) : k \in 0..MaxNesting}
    \cup {Repeat(<<"1", "+", "(">>, k) \o Lit(1) \o Repeat(<<")">>, k) : k \in 0..MaxNesting}

Expressions ==
    {<<id>> : id \in Identifiers}
    \cup BinaryTexts \cup SignedTexts \cup ChainTexts \cup CallTexts
    \cup OtherTexts \cup Malformed \cup NestedTexts

(***************************************************************************)
(* A caller of SafeEvaluator.evaluate: the argument is one of Expressions; *)
(* evaluate parses it, then walks the tree; the call returns or raises.    *)
(***************************************************************************)
NoResult == [out |-> [k |-> "none"], visited |-> <<>>, deepest |-> 0]

NoNode == [ok |-> FALSE, why |-> "none"]

Init ==
    /\ expression \in Expressions
    /\ pc = "call"
    /\ tree = NoNode
    /\ result = NoResult
    /\ display = <<"0">>
    /\ preview = <<>>

\* node = ast.parse(sanitized, mode='eval')
Parse ==
    /\ pc = "call"
    /\ tree' = ast_parse(sanitize(expression))
    /\ tree'.ok
    /\ pc' = "parsed"
    /\ UNCHANGED <<expression, result, display, preview>>

\* except SyntaxError: raise ValueError('Invalid expression')
ParseFails ==
    /\ pc = "call"
    /\ tree' = ast_parse(sanitize(expression))
    /\ ~tree'.ok
    /\ result' = EvalParsed(tree')
    /\ pc' = "done"
    /\ UNCHANGED <<expression, display, preview>>

\* return self._eval(node.body)
Walks ==
    /\ pc = "parsed"
    /\ result' = EvalParsed(tree)
    /\ pc' = "done"
    /\ UNCHANGED <<expression, tree, display, preview>>

Next == Parse \/ ParseFails \/ Walks

Spec == Init /\ [][Next]_vars

(***************************************************************************)
(* The calculator's window: the display and the preview under the         *)
(* handlers of its buttons and shortcuts.                                  *)
(***************************************************************************)
\* The digit buttons pressed; the others behave as these do.
DigitKeys == {"0", "1", "2"}

AppendTokens ==
    {<<d>> : d \in DigitKeys}
    \cup {<<".">>, <<"(">>, <<")">>, <<"+">>, <<Minus>>, <<Times>>, <<Divide>>,
          <<"*", "*">>}

InitWindow ==
    /\ expression = <<>>
    /\ pc = "idle"
    /\ tree = NoNode
    /\ result = NoResult
    /\ display = <<"0">>
    /\ preview = <<>>

_append_token(token) ==
    /\ Len(AppendedText(display, token)) <= MaxDisplay
    /\ display' = AppendedText(display, token)
    /\ preview' = PreviewOf(display')
    /\ UNCHANGED <<expression, pc, tree, result>>

_on_backspace ==
    /\ display' = IF Len(display) > 1 THEN SubSeq(display, 1, Len(display) - 1)
                  ELSE <<"0">>
    /\ preview' = PreviewOf(display')
    /\ UNCHANGED <<expression, pc, tree, result>>

_on_clear ==
    /\ display' = <<"0">>
    /\ preview' = <<>>
    /\ UNCHANGED <<expression, pc, tree, result>>

_toggle_negate ==
    /\ display' = IF display # <<>> /\ Head(display) = Minus THEN Tail(display)
                  ELSE IF display # <<"0">> THEN <<Minus>> \o display
                  ELSE display
    /\ Len(display') <= MaxDisplay
    /\ preview' = PreviewOf(display')
    /\ UNCHANGED <<expression, pc, tree, result>>

\* try: result = self.evaluator.evaluate(...); the display takes the formatted
\* result; except Exception: the preview takes 'Error'.  _on_equals and
\* _apply_percent differ in the text they evaluate.
ShowResult(out) ==
    /\ out.k # "unmodelled"
    /\ display' = IF IsOk(out) THEN _format_result(out.v) ELSE display
    /\ Len(display') <= MaxDisplay
    /\ preview' = IF IsOk(out) THEN <<>> ELSE <<"Error">>
    /\ UNCHANGED <<expression, pc, tree, result>>

_on_equals == ShowResult(evaluate(display))

_apply_percent == ShowResult(evaluate(display \o <<"/", "1", "0", "0">>))

NextWindow ==
    \/ \E token \in AppendTokens : _append_token(token)
    \/ _on_backspace
    \/ _on_clear
    \/ _toggle_negate
    \/ _on_equals
    \/ _apply_percent

SpecWindow == InitWindow /\ [][NextWindow]_vars


\* _append_token alone, from the display '0'.
NextAppend == \E token \in AppendTokens : _append_token(token)

SpecAppend == InitWindow /\ [][NextAppend]_vars

(***************************************************************************)
(* The walk of one call of evaluate, node by node.  A node is named by its *)
(* path from the root: 1 is the operand of a UnaryOp or the left operand   *)
(* of a BinOp, 2 the right operand, i the i-th argument of a Call.         *)
(***************************************************************************)
RECURSIVE Subtree(_, _)
Subtree(n, path) ==
    IF path = <<>> THEN n
    ELSE IF n.kind = "UnaryOp" THEN Subtree(n.operand, Tail(path))
    ELSE IF n.kind = "BinOp"
    THEN Subtree(IF Head(path) = 1 THEN n.left ELSE n.right, Tail(path))
    ELSE Subtree(n.args[Head(path)], Tail(path))

Returned == pc = "done"

Walked == pc = "done" /\ tree.ok

Visited == {result.visited[i] : i \in DOMAIN result.visited}

Position(path) == CHOOSE i \in DOMAIN result.visited : result.visited[i] = path

NodeAt(path) == Subtree(tree.body, path)

OutcomeAt(path) == _eval(NodeAt(path), path, Len(path) + 1).out

IsPrefix(p, q) == Len(p) <= Len(q) /\ SubSeq(q, 1, Len(p)) = p

IsPow(n) == n.kind = "BinOp" /\ n.op = "Pow"

IsRegisteredCall(n) ==
    /\ n.kind = "Call"
    /\ n.func.kind = "Name"
    /\ n.func.id \in {"sqrt", "sin", "cos", "tan", "log", "log10", "abs", "round"}

\* Both operands of the BinOp at path gave a value that is a tracked number.
NumericOperands(path) ==
    /\ IsOk(OutcomeAt(Append(path, 1)))
    /\ IsOk(OutcomeAt(Append(path, 2)))
    /\ IsNumber(OutcomeAt(Append(path, 1)).v)
    /\ IsTracked(OutcomeAt(Append(path, 1)).v)
    /\ IsNumber(OutcomeAt(Append(path, 2)).v)
    /\ IsTracked(OutcomeAt(Append(path, 2)).v)

IntOperands(path) ==
    /\ IsOk(OutcomeAt(Append(path, 1)))
    /\ IsOk(OutcomeAt(Append(path, 2)))
    /\ OutcomeAt(Append(path, 1)).v.t = "int"
    /\ OutcomeAt(Append(path, 2)).v.t = "int"

\* Every argument of the Call at path gave a value that is a tracked number.
NumericArguments(path) ==
    \A i \in 1..Len(NodeAt(path).args) :
        /\ IsOk(OutcomeAt(Append(path, i)))
        /\ IsNumber(OutcomeAt(Append(path, i)).v)
        /\ IsTracked(OutcomeAt(Append(path, i)).v)

\* The errors of arithmetic the evaluator raises: a division by zero, the
\* pow guard, an argument outside a function's domain.
IsArithmeticError(o) ==
    /\ IsRaise(o)
    /\ \/ o.exc = "ZeroDivisionError"
       \/ o.exc = "ValueError" /\ o.msg \in {"Exponent too large", "math domain error"}

(***************************************************************************)
(* C1: every Name node that evaluate reaches gives a number when its id is *)
(* pi or e; for any other id, the names of the registered functions        *)
(* included, the node and the whole evaluation raise                       *)
(* ValueError('Unknown identifier') and no value is returned.              *)
(***************************************************************************)
C1_OnlyConstantsResolve ==
    Walked =>
        \A p \in Visited :
            NodeAt(p).kind = "Name" =>
                IF NodeAt(p).id \in {"pi", "e"}
                THEN IsOk(OutcomeAt(p)) /\ IsNumber(OutcomeAt(p).v)
                ELSE /\ Raises(OutcomeAt(p), "ValueError", "Unknown identifier")
                     /\ Raises(result.out, "ValueError", "Unknown identifier")

(***************************************************************************)
(* C2: every Call node that evaluate reaches whose callee is not the name  *)
(* of one of the eight registered functions (a registered constant, an     *)
(* unknown name, a callee that is not a name) raises                       *)
(* ValueError('Function not allowed'), whatever its arguments.             *)
(***************************************************************************)
C2_UnregisteredCalleeIsRefused ==
    Walked =>
        \A p \in Visited :
            (NodeAt(p).kind = "Call" /\ ~IsRegisteredCall(NodeAt(p)))
                => Raises(OutcomeAt(p), "ValueError", "Function not allowed")

(***************************************************************************)
(* C3: a call of sqrt, log or log10 on numbers with the wrong number of    *)
(* arguments, and a call with one argument outside the domain (sqrt of a   *)
(* negative number, log or log10 of a number that is not positive), both   *)
(* end in an error of arithmetic, never in another error or in a value.    *)
(***************************************************************************)
WrongArgumentCount(n) ==
    IF n.func.id = "log" THEN Len(n.args) \notin {1, 2} ELSE Len(n.args) # 1

OutsideDomain(path) ==
    /\ Len(NodeAt(path).args) = 1
    /\ IF NodeAt(path).func.id = "sqrt"
       THEN Numer(OutcomeAt(Append(path, 1)).v) < 0
       ELSE Numer(OutcomeAt(Append(path, 1)).v) <= 0

C3_ArityAndDomainAreArithmeticErrors ==
    Walked =>
        \A p \in Visited :
            ( /\ IsRegisteredCall(NodeAt(p))
              /\ NodeAt(p).func.id \in {"sqrt", "log", "log10"}
              /\ NumericArguments(p)
              /\ (WrongArgumentCount(NodeAt(p)) \/ OutsideDomain(p)) )
                => IsArithmeticError(OutcomeAt(p))

(***************************************************************************)
(* C4: every node that evaluate reaches whose kind is outside the          *)
(* allow-list of the specification (a list, a tuple, a string literal, an  *)
(* attribute access, a subscript, a comparison, a BinOp of the             *)
(* matrix-multiply operator) raises ValueError('Disallowed expression') at *)
(* that node, and no other error.                                          *)
(***************************************************************************)
OutsideAllowList(n) ==
    \/ n.kind \in {"List", "Tuple", "Attribute", "Subscript", "Compare"}
    \/ n.kind = "Constant" /\ n.value.t = "str"
    \/ n.kind = "BinOp" /\ n.op = "MatMult"

C4_OtherKindsAreDisallowed ==
    Walked =>
        \A p \in Visited :
            OutsideAllowList(NodeAt(p))
                => /\ Raises(OutcomeAt(p), "ValueError", "Disallowed expression")
                   /\ Raises(result.out, "ValueError", "Disallowed expression")

(***************************************************************************)
(* C5: at every Pow node that evaluate reaches with numbers l and r for    *)
(* operands, abs(l) > 1000000 or abs(r) > 10 gives                         *)
(* ValueError('Exponent too large'), and otherwise, the boundaries         *)
(* abs(l) = 1000000 and abs(r) = 10 included, the node gives l ** r; the   *)
(* nested Pow nodes of a chain a**b**c included.  2**10 is 1024 and        *)
(* 2**3**2 is 2**9.                                                        *)
(***************************************************************************)
Magnitude(v) == [whole |-> Abs(v.n) \div Denom(v), part |-> Abs(v.n) % Denom(v)]

\* abs(v) > limit, for a whole number limit
Above(v, limit) ==
    Magnitude(v).whole > limit \/ (Magnitude(v).whole = limit /\ Magnitude(v).part > 0)

C6_DivisionByZero ==
    Walked =>
        \A p \in Visited :
            ( /\ NodeAt(p).kind = "BinOp"
              /\ NodeAt(p).op = "Div"
              /\ IsOk(OutcomeAt(Append(p, 1)))
              /\ IsOk(OutcomeAt(Append(p, 2)))
              /\ IsNumber(OutcomeAt(Append(p, 2)).v)
              /\ IsTracked(OutcomeAt(Append(p, 2)).v)
              /\ Numer(OutcomeAt(Append(p, 2)).v) = 0 )
                => /\ IsRaise(OutcomeAt(p))
                   /\ OutcomeAt(p).exc = "ZeroDivisionError"
                   /\ OutcomeAt(p).msg \in {"division by zero", "float division by zero"}
                   /\ result.out = OutcomeAt(p)

(***************************************************************************)
(* C7: at every FloorDiv or Mod node that evaluate reaches with integers l *)
(* and r # 0 for operands, l // r is the integer q with q <= l/r < q + 1,  *)
(* l % r is an integer m that is zero or has the sign of r,                *)
(* l = q * r + m, and the node gives q or m.  The minus of a literal binds *)
(* tighter than // and %: '-7 // 2' is -4 and '-7 % 2' is 1.               *)
(***************************************************************************)
IsFloorOf(q, l, r) ==
    IF r > 0 THEN q * r <= l /\ l < (q + 1) * r
    ELSE q * r >= l /\ l > (q + 1) * r

FloorLaws(l, r, q, m) ==
    /\ IsOk(q) /\ q.v.t = "int"
    /\ IsOk(m) /\ m.v.t = "int"
    /\ IsFloorOf(q.v.n, l, r)
    /\ (m.v.n = 0 \/ (m.v.n > 0) = (r > 0))
    /\ l = q.v.n * r + m.v.n

C7_FloorSemantics ==
    /\ Walked =>
        \A p \in Visited :
            ( /\ NodeAt(p).kind = "BinOp"
              /\ NodeAt(p).op \in {"FloorDiv", "Mod"}
              /\ IntOperands(p)
              /\ OutcomeAt(Append(p, 2)).v.n # 0 )
                => /\ FloorLaws(OutcomeAt(Append(p, 1)).v.n,
                                OutcomeAt(Append(p, 2)).v.n,
                                ApplyBinOp("FloorDiv", OutcomeAt(Append(p, 1)).v,
                                           OutcomeAt(Append(p, 2)).v),
                                ApplyBinOp("Mod", OutcomeAt(Append(p, 1)).v,
                                           OutcomeAt(Append(p, 2)).v))
                   /\ OutcomeAt(p) = ApplyBinOp(NodeAt(p).op,
                                                OutcomeAt(Append(p, 1)).v,
                                                OutcomeAt(Append(p, 2)).v)
    /\ (Returned /\ expression = <<"-", "7", " ", "/", "/", " ", "2">>)
        => /\ tree.body.kind = "BinOp" /\ tree.body.left.kind = "UnaryOp"
           /\ result.out = Ok(IntV(-4))
    /\ (Returned /\ expression = <<"-", "7", " ", "%", " ", "2">>)
        => /\ tree.body.kind = "BinOp" /\ tree.body.left.kind = "UnaryOp"
           /\ result.out = Ok(IntV(1))

C7_Witness ==
    /\ Returned
    /\ expression = <<"-", "7", " ", "/", "/", " ", "2">>
    /\ NodeAt(<<>>).op = "FloorDiv"
    /\ OutcomeAt(<<1>>) = Ok(IntV(-7))
    /\ result.out = Ok(IntV(-4))

(***************************************************************************)
(* C8: in a walk within the interpreter's limit, a BinOp node enters its   *)
(* left operand before its right one and a call of a registered function   *)
(* enters its arguments from left to right; an operand or argument is      *)
(* entered only if those before it gave a value, and the first one that    *)
(* raises gives the node its outcome.  When evaluate raises, the error is  *)
(* that of one node, every node under it gave a value, and no node outside *)
(* it was entered after it: no value is returned.                          *)
(***************************************************************************)
WithinLimit ==
    /\ Walked
    /\ result.out.k # "unmodelled"
    /\ ~(IsRaise(result.out) /\ result.out.exc = "RecursionError")

OperandsInOrder(p) ==
    /\ Append(p, 1) \in Visited
    /\ IF IsOk(OutcomeAt(Append(p, 1)))
       THEN /\ Append(p, 2) \in Visited
            /\ Position(Append(p, 1)) < Position(Append(p, 2))
            /\ ~IsOk(OutcomeAt(Append(p, 2)))
                => OutcomeAt(p) = OutcomeAt(Append(p, 2))
       ELSE /\ Append(p, 2) \notin Visited
            /\ OutcomeAt(p) = OutcomeAt(Append(p, 1))

ArgumentsInOrder(p) ==
    \A i \in 1..Len(NodeAt(p).args) :
        IF \A j \in 1..(i - 1) : IsOk(OutcomeAt(Append(p, j)))
        THEN /\ Append(p, i) \in Visited
             /\ i > 1 => Position(Append(p, i - 1)) < Position(Append(p, i))
             /\ ~IsOk(OutcomeAt(Append(p, i)))
                 => OutcomeAt(p) = OutcomeAt(Append(p, i))
        ELSE Append(p, i) \notin Visited

\* The node at f raised the error of the walk: the nodes under it gave
\* values, and the walk entered nothing but them after it.
IsFirstFailure(f) ==
    /\ OutcomeAt(f) = result.out
    /\ \A q \in Visited : (IsPrefix(f, q) /\ q # f) => IsOk(OutcomeAt(q))
    /\ \A i \in DOMAIN result.visited :
        i > Position(f) => IsPrefix(f, result.visited[i])

C8_FirstErrorInOrder ==
    WithinLimit =>
        /\ \A p \in Visited :
            /\ NodeAt(p).kind = "BinOp" => OperandsInOrder(p)
            /\ IsRegisteredCall(NodeAt(p)) => ArgumentsInOrder(p)
        /\ IsRaise(result.out) => \E f \in Visited : IsFirstFailure(f)
        /\ result.out.k \in {"ok", "raise"}

\* Both operands of a BinOp would raise, each its own error: the walk ends
\* with the error of the left one.
C8_Witness ==
    /\ WithinLimit
    /\ \E p \in Visited :
        /\ NodeAt(p).kind = "BinOp"
        /\ IsRaise(OutcomeAt(Append(p, 1)))
        /\ IsRaise(OutcomeAt(Append(p, 2)))
        /\ OutcomeAt(Append(p, 1)) # OutcomeAt(Append(p, 2))
        /\ result.out = OutcomeAt(Append(p, 1))

(***************************************************************************)
(* C9: _eval enforces a maximum nesting depth, so that every call of       *)
(* evaluate, however deep the expression, returns a number or raises one   *)
(* of the errors of the evaluator, never the interpreter's RecursionError. *)
(***************************************************************************)
C9_DepthIsBounded ==
    Returned => ~(IsRaise(result.out) /\ result.out.exc = "RecursionError")

(***************************************************************************)
(* C10: from the display '0', after any sequence of _append_token calls,   *)
(* the display never holds two consecutive operator tokens (each one of    *)
(* '+', the minus sign, the times sign, the division sign, '**').          *)
(***************************************************************************)
OperatorEndsAt(text, i) ==
    \E tok \in OperatorTokens :
        i >= Len(tok) /\ SubSeq(text, i - Len(tok) + 1, i) = tok

OperatorStartsAt(text, i) ==
    \E tok \in OperatorTokens :
        i + Len(tok) - 1 <= Len(text) /\ SubSeq(text, i, i + Len(tok) - 1) = tok

C10_NoConsecutiveOperators ==
    \A i \in 1..(Len(display) - 1) :
        ~(OperatorEndsAt(display, i) /\ OperatorStartsAt(display, i + 1))

=============================================================================
